---- MODULE Spec2Model ----
(***************************************************************************)
(* Model of drainage-basin-builder: build_drainage_basin (flow router,     *)
(* area accumulator, river path synthesizer, record assembly), the text    *)
(* persistence of drainage records, DrainageMap::collides_with_river and   *)
(* build_flatness_map.                                                     *)
(*                                                                         *)
(* Cells are the integers 1..NumCells laid out as a triangle strip; the    *)
(* tessellation engine (worley_particle) is an external collaborator, so   *)
(* site(), calculate_voronoi().neighbors and .area() are fixed geometry.   *)
(***************************************************************************)
EXTENDS Integers, Sequences, FiniteSets, TLC

\* ---------------------------------------------------------------- bounds
NumCells == 4
MaxElev == 2
\* no cell is the current cell of a walk more often than this
MaxVisits == 2

Cells == 1..NumCells
NoCell == 0

Abs(x) == IF x < 0 THEN -x ELSE x

\* ------------------------------------------------------ external geometry
\* particle.site(): coordinates are kept even so that the midpoints taken
\* by Stream::new are exact.
Site(c) == <<2 * (2 * c + ((c * c) % 3)), IF c % 2 = 0 THEN 6 ELSE 0>>

\* voronoi.area()
Area(c) == 1 + ((2 * c) % 3)

\* voronoi.neighbors as a set: in a triangle strip a cell touches the two
\* cells before it and the two after it (whether or not they are in the map).
Neighbors(c) == {n \in Cells : n # c /\ Abs(n - c) <= 2}

RECURSIVE SeqOfSet(_, _)
\* the elements of S in ascending (asc = TRUE) or descending order
SeqOfSet(S, asc) ==
    IF S = {} THEN <<>>
    ELSE LET x == IF asc THEN CHOOSE m \in S : \A y \in S : m <= y
                        ELSE CHOOSE m \in S : \A y \in S : m >= y
         IN <<x>> \o SeqOfSet(S \ {x}, asc)

\* squared (site.0 - neighbor_site.0).hypot(site.1 - neighbor_site.1)
DistSq(a, b) ==
    (Site(a)[1] - Site(b)[1]) * (Site(a)[1] - Site(b)[1])
  + (Site(a)[2] - Site(b)[2]) * (Site(a)[2] - Site(b)[2])

\* ------------------------------------------------------------------ state
VARIABLES
    field,          \* cells present in terrain_map
    elevation,      \* terrain_map: cell -> DrainageBasinInput.elevation
    ascending,      \* iteration order of voronoi.neighbors (unspecified)
    pc,             \* position inside build_drainage_basin
    nodes,          \* ParticleMap<InternalNode>
    parent_num,     \* HashMap<Particle, i32>
    drainage_area,  \* HashMap<Particle, f64>
    origins,        \* cells the loop `for (origin_particle, _) in nodes` has still to yield
    current,        \* `current` of the running walk, NoCell outside a walk
    visits,         \* history: how often each cell was `current` at the top of the loop body
    river_paths,    \* HashMap<Particle, Stream>
    particle_map,   \* the returned ParticleMap<DrainageBasinNode>
    rw_pc,          \* position of the save / load scenario
    rw_map,         \* DrainageMap.particle_map held in memory before saving
    rw_file,        \* the persisted file: one row of text tokens per cell
    rw_loaded,      \* what load_from_file returned
    river_strength, \* DrainageMap.river_strength, in units of 1 / StrengthDen
    river_ignoreable_width_strength,  \* same unit
    query,          \* <<cell, step>>: the curve point last passed to collides_with_river
    collided,       \* what that call returned
    fl_pc,          \* position inside build_flatness_map
    fl_elevation,   \* elevation_map of build_flatness_map
    fl_gradient,    \* what get_gradient returns at each cell's site
    sea_level,      \* argument of build_flatness_map
    minimum_neighbor_num,  \* argument of build_flatness_map
    fl_mapping,     \* the caller's gradient_to_flatness
    flatness_map    \* `flatness_map` of build_flatness_map

dvars == <<field, elevation, ascending, pc, nodes, parent_num, drainage_area,
           origins, current, visits, river_paths, particle_map>>
rwvars == <<rw_pc, rw_map, rw_file, rw_loaded>>
mvars == <<river_strength, river_ignoreable_width_strength, query, collided>>
flvars == <<fl_pc, fl_elevation, fl_gradient, sea_level, minimum_neighbor_num,
            fl_mapping, flatness_map>>
vars == <<dvars, rwvars, mvars, flvars>>

EmptyMap == [c \in {} |-> 0]

\* ------------------------------------------------------------ flow router
\* A slope de / sqrt(d2) is kept exactly as the pair (de, d2); 0.0 has one
\* representation.
ZeroSlope == [de |-> 0, d2 |-> 1]

MkSlope(de, d2) == IF de = 0 THEN ZeroSlope ELSE [de |-> de, d2 |-> d2]

\* a > b on slopes
SlopeGT(a, b) ==
    IF a.de >= 0 /\ b.de < 0 THEN TRUE
    ELSE IF a.de < 0 /\ b.de >= 0 THEN FALSE
    ELSE IF a.de >= 0 THEN a.de * a.de * b.d2 > b.de * b.de * a.d2
    ELSE a.de * a.de * b.d2 < b.de * b.de * a.d2

NeighborSeq(c) == SeqOfSet(Neighbors(c), ascending)

\* mutation of Eligible: only strictly lower neighbours are kept
EligibleStrict(c, n) == n \in field /\ elevation[n] < elevation[c]

\* `if let Some(neighbor_input) = terrain_map.get(&neighbor)` and not
\* `neighbor_input.elevation > input.elevation`
Eligible(c, n) == n \in field /\ ~(elevation[n] > elevation[c])

\* (neighbor_input.elevation - input.elevation) / distance
SlopeTo(c, n) == MkSlope(elevation[n] - elevation[c], DistSq(c, n))

RECURSIVE Scan(_, _, _, _)
\* the loop `for neighbor in voronoi.neighbors` from position i on, with the
\* running (flow_to, steepest_slope); flow_to = NoCell stands for None
Scan(c, i, flow_to, steepest_slope) ==
    IF i > Len(NeighborSeq(c)) THEN [flow_to |-> flow_to, slope |-> steepest_slope]
    ELSE LET neighbor == NeighborSeq(c)[i]
         IN IF ~Eligible(c, neighbor) THEN Scan(c, i + 1, flow_to, steepest_slope)
            ELSE LET slope == SlopeTo(c, neighbor)
                 IN IF flow_to # NoCell
                    THEN IF SlopeGT(slope, steepest_slope)
                         THEN Scan(c, i + 1, neighbor, slope)
                         ELSE Scan(c, i + 1, flow_to, steepest_slope)
                    ELSE Scan(c, i + 1, neighbor, slope)

\* the closure of `terrain_map.iter().map(...)`: the InternalNode of c
InternalNode(c) ==
    LET r == Scan(c, 1, NoCell, ZeroSlope)
    IN IF r.flow_to # NoCell
       THEN [area |-> Area(c), flow_to |-> r.flow_to, slope |-> r.slope]
       ELSE [area |-> Area(c), flow_to |-> c, slope |-> ZeroSlope]

\* -------------------------------------------------------------- in-degree
\* the loop over nodes that fills parent_num: one count per node, keyed by
\* its flow_to (a sink's own self-loop is counted like any other edge)
\* the same with .or_insert(1) alone: no count ever exceeds 1
ParentNumOne(ns) ==
    LET targets == {ns[c].flow_to : c \in DOMAIN ns}
    IN [t \in targets |-> 1]
ParentNum(ns) ==
    LET targets == {ns[c].flow_to : c \in DOMAIN ns}
    IN [t \in targets |-> Cardinality({c \in DOMAIN ns : ns[c].flow_to = t})]

\* drainage_area.entry(k).and_modify(|e| *e += v) without .or_insert(v)
ModifyOnly(m, k, v) ==
    [x \in DOMAIN m |-> IF x = k THEN m[k] + v ELSE m[x]]
\* drainage_area.entry(k).and_modify(|e| *e += v).or_insert(v)
AddOrInsert(m, k, v) ==
    [x \in DOMAIN m \cup {k} |->
        IF x = k THEN (IF k \in DOMAIN m THEN m[k] + v ELSE v) ELSE m[x]]

\* ------------------------------------------------------------ river paths
Mid(p, q) == <<(p[1] + q[1]) \div 2, (p[2] + q[2]) \div 2>>

\* Stream::Path(Bezier::from_quadratic_coordinates(..)) and Stream::Point(..)
PathOf(a, h, e) == [tag |-> "Path", start |-> a, handle |-> h, end |-> e]
PointOf(a) == [tag |-> "Point", at |-> a]

\* Stream::new ending the curve at site_2 itself
StreamNewToSite(site_0, site_1, site_2) ==
    IF site_0 = site_1
    THEN PointOf(site_0)
    ELSE PathOf(Mid(site_0, site_1), site_1, site_2)
\* Stream::new
StreamNew(site_0, site_1, site_2) ==
    IF site_0 = site_1
    THEN PointOf(site_0)
    ELSE PathOf(Mid(site_0, site_1), site_1, Mid(site_1, site_2))

\* the loop that fills river_paths, without `continue` for a sink
RiverPathsAll(ns) ==
    [c \in DOMAIN ns |->
        StreamNew(Site(c), Site(ns[c].flow_to), Site(ns[ns[c].flow_to].flow_to))]
\* the loop that fills river_paths
RiverPaths(ns) ==
    [c \in {x \in DOMAIN ns : ns[x].flow_to # x} |->
        StreamNew(Site(c), Site(ns[c].flow_to), Site(ns[ns[c].flow_to].flow_to))]

\* the final filter_map: a record needs drainage_area.get(particle)? and
\* river_paths.get(particle)?
Assembled(ns, da, rp) ==
    [c \in {x \in DOMAIN ns : x \in DOMAIN da /\ x \in DOMAIN rp} |->
        [particle |-> c, area |-> ns[c].area, drainage_area |-> da[c],
         flow_to |-> ns[c].flow_to, slope |-> ns[c].slope, main_river |-> rp[c]]]

\* ------------------------------------------------------- text persistence
\* A token is a sequence of characters.  f64 values of records are finite
\* decimals m / 10^k kept normalised (k = 0 or m not a multiple of 10);
\* tokens use the characters of decimal numbers and of the tags only
\* (no exponent, inf or nan spellings).
Digits == <<"0", "1", "2", "3", "4", "5", "6", "7", "8", "9">>

IsDigit(ch) == \E d \in 1..10 : Digits[d] = ch
DigitVal(ch) == (CHOOSE d \in 1..10 : Digits[d] = ch) - 1

RECURSIVE Pow10(_)
Pow10(k) == IF k = 0 THEN 1 ELSE 10 * Pow10(k - 1)

RECURSIVE F64(_, _)
\* the f64 value m / 10^k
F64(m, k) ==
    IF k > 0 /\ m % 10 = 0 THEN F64(m \div 10, k - 1) ELSE [m |-> m, k |-> k]

RECURSIVE NatToChars(_)
NatToChars(n) ==
    IF n < 10 THEN <<Digits[n + 1]>>
    ELSE NatToChars(n \div 10) \o <<Digits[(n % 10) + 1]>>

RECURSIVE PadLeft(_, _)
PadLeft(chars, width) ==
    IF Len(chars) >= width THEN chars ELSE PadLeft(<<"0">> \o chars, width)

\* f64::to_string (Display): sign, integer part, and the fraction if any
F64ToString(v) ==
    LET a == Abs(v.m)
    IN (IF v.m < 0 THEN <<"-">> ELSE <<>>)
       \o NatToChars(a \div Pow10(v.k))
       \o (IF v.k > 0 THEN <<".">> \o PadLeft(NatToChars(a % Pow10(v.k)), v.k)
           ELSE <<>>)

RECURSIVE DigitsVal(_)
DigitsVal(chars) ==
    IF chars = <<>> THEN 0
    ELSE 10 * DigitsVal(SubSeq(chars, 1, Len(chars) - 1)) + DigitVal(chars[Len(chars)])

AllDigits(chars) == \A i \in 1..Len(chars) : IsDigit(chars[i])

NoValue == [m |-> 0, k |-> 0]
ParseErr == [ok |-> FALSE, val |-> NoValue]

\* str::parse::<f64>: [sign] digits [. digits] with at least one digit
ParseF64(tok) ==
    LET signed == Len(tok) > 0 /\ tok[1] \in {"+", "-"}
        body == IF signed THEN SubSeq(tok, 2, Len(tok)) ELSE tok
        dots == {i \in 1..Len(body) : body[i] = "."}
        dot == IF dots = {} THEN Len(body) + 1
               ELSE CHOOSE i \in dots : \A j \in dots : i <= j
        int == SubSeq(body, 1, dot - 1)
        frac == SubSeq(body, dot + 1, Len(body))
        mag == DigitsVal(int) * Pow10(Len(frac)) + DigitsVal(frac)
    IN IF AllDigits(int) /\ AllDigits(frac) /\ Len(int) + Len(frac) >= 1
       THEN [ok |-> TRUE,
             val |-> F64(IF signed /\ tok[1] = "-" THEN -mag ELSE mag, Len(frac))]
       ELSE ParseErr

\* Particle::len_strs(), Particle::to_strings(), Particle::from_strs() of the
\* tessellation engine: a cell identity is its grid pair, written as two
\* integer tokens.
ParticleLenStrs == 2

ParticleToStrings(p) == <<F64ToString(F64(p[1], 0)), F64ToString(F64(p[2], 0))>>

NoParticle == <<0, 0>>

ParticleFromStrs(s) ==
    LET x == ParseF64(s[1])
        y == ParseF64(s[2])
    IN IF x.ok /\ y.ok /\ x.val.k = 0 /\ y.val.k = 0
       THEN [ok |-> TRUE, val |-> <<x.val.m, y.val.m>>]
       ELSE [ok |-> FALSE, val |-> NoParticle]

TagPath == <<"P", "a", "t", "h">>
TagPoint == <<"P", "o", "i", "n", "t">>
Blank == <<>>

\* Stream::len_strs
StreamLenStrs == 7

\* Stream::to_strings
StreamToStrings(st) ==
    IF st.tag = "Path"
    THEN <<TagPath,
           F64ToString(st.start[1]), F64ToString(st.start[2]),
           F64ToString(st.handle[1]), F64ToString(st.handle[2]),
           F64ToString(st.end[1]), F64ToString(st.end[2])>>
    ELSE <<TagPoint, F64ToString(st.at[1]), F64ToString(st.at[2]),
           Blank, Blank, Blank, Blank>>

NoStream == PointOf(<<NoValue, NoValue>>)

\* Stream::from_strs
StreamFromStrs(s) ==
    IF s[1] = TagPath
    THEN LET n == [i \in 2..7 |-> ParseF64(s[i])]
         IN IF \A i \in 2..7 : n[i].ok
            THEN [ok |-> TRUE,
                  val |-> PathOf(<<n[2].val, n[3].val>>, <<n[4].val, n[5].val>>,
                                 <<n[6].val, n[7].val>>)]
            ELSE [ok |-> FALSE, val |-> NoStream]
    ELSE LET x == ParseF64(s[2])
             y == ParseF64(s[3])
         IN IF x.ok /\ y.ok
            THEN [ok |-> TRUE, val |-> PointOf(<<x.val, y.val>>)]
            ELSE [ok |-> FALSE, val |-> NoStream]

\* DrainageBasinNode::len_strs
NodeLenStrs == ParticleLenStrs + ParticleLenStrs + StreamLenStrs + 3

\* DrainageBasinNode::to_strings
NodeToStrings(n) ==
    ParticleToStrings(n.particle) \o ParticleToStrings(n.flow_to)
    \o StreamToStrings(n.main_river)
    \o <<F64ToString(n.area), F64ToString(n.drainage_area), F64ToString(n.slope)>>

NoNode == [particle |-> NoParticle, area |-> NoValue, drainage_area |-> NoValue,
           slope |-> NoValue, flow_to |-> NoParticle, main_river |-> NoStream]

\* mutation of NodeFromStrs: area and drainage_area are read from each
\* other's token
NodeFromStrsSwapped(s) ==
    LET pl == ParticleLenStrs
        particle == ParticleFromStrs(SubSeq(s, 1, pl))
        flow_to == ParticleFromStrs(SubSeq(s, pl + 1, pl * 2))
        main_river == StreamFromStrs(SubSeq(s, pl * 2 + 1, pl * 2 + StreamLenStrs))
        area == ParseF64(s[pl * 2 + StreamLenStrs + 2])
        drainage == ParseF64(s[pl * 2 + StreamLenStrs + 1])
        slope_ == ParseF64(s[pl * 2 + StreamLenStrs + 3])
    IN IF particle.ok /\ flow_to.ok /\ main_river.ok /\ area.ok
          /\ drainage.ok /\ slope_.ok
       THEN [ok |-> TRUE,
             val |-> [particle |-> particle.val, area |-> area.val,
                      drainage_area |-> drainage.val, slope |-> slope_.val,
                      flow_to |-> flow_to.val, main_river |-> main_river.val]]
       ELSE [ok |-> FALSE, val |-> NoNode]

\* DrainageBasinNode::from_strs
NodeFromStrs(s) ==
    LET pl == ParticleLenStrs
        particle == ParticleFromStrs(SubSeq(s, 1, pl))
        flow_to == ParticleFromStrs(SubSeq(s, pl + 1, pl * 2))
        main_river == StreamFromStrs(SubSeq(s, pl * 2 + 1, pl * 2 + StreamLenStrs))
        area == ParseF64(s[pl * 2 + StreamLenStrs + 1])
        drainage == ParseF64(s[pl * 2 + StreamLenStrs + 2])
        slope_ == ParseF64(s[pl * 2 + StreamLenStrs + 3])
    IN IF particle.ok /\ flow_to.ok /\ main_river.ok /\ area.ok
          /\ drainage.ok /\ slope_.ok
       THEN [ok |-> TRUE,
             val |-> [particle |-> particle.val, area |-> area.val,
                      drainage_area |-> drainage.val, slope |-> slope_.val,
                      flow_to |-> flow_to.val, main_river |-> main_river.val]]
       ELSE [ok |-> FALSE, val |-> NoNode]

\* DrainageMap::save_to_file: ParticleMap::write_to_file writes the row
\* to_strings() of every record
SaveToFile(map) == [p \in DOMAIN map |-> NodeToStrings(map[p])]

NotLoaded == [some |-> FALSE, map |-> EmptyMap]

\* DrainageMap::load_from_file: read_from_file(..).ok()? is None as soon as
\* one row's from_strs is an error
LoadFromFile(file) ==
    IF \A p \in DOMAIN file : NodeFromStrs(file[p]).ok
    THEN [some |-> TRUE, map |-> [p \in DOMAIN file |-> NodeFromStrs(file[p]).val]]
    ELSE NotLoaded

\* --- inputs of the save / load scenario
RWParticles == {<<0, 0>>, <<-1, 12>>}
RWValues == {F64(0, 0), F64(-15, 1), F64(1005, 2)}
RWPoint1 == <<F64(0, 0), F64(-15, 1)>>
RWPoint2 == <<F64(25, 2), F64(3, 0)>>
RWPoint3 == <<F64(-7, 3), F64(120, 0)>>
RWStreams == {PathOf(RWPoint1, RWPoint2, RWPoint3),
              PathOf(RWPoint3, RWPoint1, RWPoint1),
              PointOf(RWPoint2)}

\* tokens an edited file may hold in place of a saved one
TamperTokens == {<<"F", "o", "o">>, <<"x">>, Blank, <<"7">>, TagPath, TagPoint}

\* ---------------------------------------------------------- river queries
\* particle_map.params().scale: the grid pitch of the tessellation
CellScale == 6

\* river_strength and river_ignoreable_width_strength are multiples of
\* 1 / StrengthDen
StrengthDen == 4
Strengths == {0, 1, 2}

\* curve parameters are the multiples of 1 / TSteps; a point of the plane
\* handed to a query is kept multiplied by TSteps^2, which makes the points
\* of a curve at these parameters exact
TSteps == 4
HalfWay == TSteps \div 2
PlaneUnit == TSteps * TSteps

Sq(x) == x * x

\* squared distance of two plane points
PointDistSq(p, q) == Sq(p[1] - q[1]) + Sq(p[2] - q[2])

\* Stream::evaluate at t = j / TSteps
Evaluate(st, j) ==
    IF st.tag = "Path"
    THEN <<Sq(TSteps - j) * st.start[1] + 2 * j * (TSteps - j) * st.handle[1]
              + Sq(j) * st.end[1],
           Sq(TSteps - j) * st.start[2] + 2 * j * (TSteps - j) * st.handle[2]
              + Sq(j) * st.end[2]>>
    ELSE <<PlaneUnit * st.at[1], PlaneUnit * st.at[2]>>

\* Bezier::project: the parameter of the curve point nearest to q
Project(st, q) ==
    CHOOSE j \in 0..TSteps :
        \A k \in 0..TSteps :
            \/ PointDistSq(Evaluate(st, j), q) < PointDistSq(Evaluate(st, k), q)
            \/ /\ PointDistSq(Evaluate(st, j), q) = PointDistSq(Evaluate(st, k), q)
               /\ j <= k

\* A width sqrt(sq) / StrengthDen is kept as the number sq under the root.
\* DrainageBasinNode::river_width
RiverWidth(node, strength) ==
    [sq |-> node.drainage_area * Sq(strength) * Sq(CellScale)]

\* DrainageMap::river_ignoreable_width
RiverIgnoreableWidth(ignoreable_strength) ==
    [sq |-> Sq(ignoreable_strength) * Sq(CellScale)]

\* a < b on widths
WidthLT(a, b) == a.sq < b.sq

\* squared_distance < width.powi(2)
CloserThan(dsq, width) == dsq * Sq(StrengthDen) < width.sq * Sq(PlaneUnit)

\* Stream::collides measuring from the start of the curve, without project
StreamCollidesFromStart(st, q, width) ==
    CloserThan(PointDistSq(Evaluate(st, 0), q), width)
\* Stream::collides
StreamCollides(st, q, width) ==
    IF st.tag = "Path"
    THEN CloserThan(PointDistSq(Evaluate(st, Project(st, q)), q), width)
    ELSE CloserThan(PointDistSq(Evaluate(st, 0), q), width)

\* Particle::from_inside_radius: the cells whose site is within radius of q
FromInsideRadius(q, radius) ==
    {c \in Cells :
        PointDistSq(<<PlaneUnit * Site(c)[1], PlaneUnit * Site(c)[2]>>, q)
            <= Sq(radius) * Sq(PlaneUnit)}

\* the nodes collides_with_river iterates over
Queried(pm, q) == FromInsideRadius(q, CellScale * 2) \cap DOMAIN pm

\* collides_with_river without the `continue` for a narrow river
CollidesWithRiverNoSkip(pm, strength, ignoreable_strength, q) ==
    \E c \in Queried(pm, q) :
        StreamCollides(pm[c].main_river, q, RiverWidth(pm[c], strength))
\* DrainageMap::collides_with_river
CollidesWithRiver(pm, strength, ignoreable_strength, q) ==
    \E c \in Queried(pm, q) :
        /\ ~WidthLT(RiverWidth(pm[c], strength),
                    RiverIgnoreableWidth(ignoreable_strength))
        /\ StreamCollides(pm[c].main_river, q, RiverWidth(pm[c], strength))

\* --------------------------------------------------------------- flatness
\* Option<f64>
NoF64 == [some |-> FALSE]
SomeF64(v) == [some |-> TRUE, val |-> v]

\* A flatness value is the rational n / d, or its square root.
Ratio(n, d) == [n |-> n, d |-> d, root |-> FALSE]
RootOf(n, d) == [n |-> n, d |-> d, root |-> TRUE]

\* examples/terrain.rs gradient_to_flatness: 1 - |gradient| / 5 is
\* (5 - |gradient|) / 5
ExampleFlatness(gradient) ==
    IF 5 - Abs(gradient) < 0 THEN NoF64
    ELSE SomeF64(RootOf(5 - Abs(gradient), 5))

\* the mappings a caller passes: the example's, and one that hands the
\* gradient back
Mappings == {"example", "gradient"}
GradientToFlatness(mapping, gradient) ==
    IF mapping = "example" THEN ExampleFlatness(gradient)
    ELSE SomeF64(Ratio(gradient, 1))

\* elevation and gradient at a cell: below and at sea level, gradient
\* undefined, steep, moderate and too steep for the example mapping
FlatInputs == {[e |-> 0, g |-> SomeF64(3)],
               [e |-> 1, g |-> NoF64],
               [e |-> 1, g |-> SomeF64(-5)],
               [e |-> 1, g |-> SomeF64(3)],
               [e |-> 1, g |-> SomeF64(7)]}
SeaLevels == {0, 1}
MaxNeighborNum == 2

\* flatness.rs 57-77, keeping a cell below sea level
FirstPassNoSea(elev, grad, sea, mapping) ==
    [c \in {x \in DOMAIN elev :
                /\ grad[x].some
                /\ GradientToFlatness(mapping, grad[x].val).some} |->
        GradientToFlatness(mapping, grad[c].val).val]
\* flatness.rs 57-77: the filter_map over elevation_map
FirstPass(elev, grad, sea, mapping) ==
    [c \in {x \in DOMAIN elev :
                /\ ~(elev[x] < sea)
                /\ grad[x].some
                /\ GradientToFlatness(mapping, grad[x].val).some} |->
        GradientToFlatness(mapping, grad[c].val).val]

\* flatness.rs 79-93: the filter on the number of valued neighbours
NeighborFilter(fm, min) ==
    [c \in {x \in DOMAIN fm :
                Cardinality({n \in Neighbors(x) : n \in DOMAIN fm}) >= min} |->
        fm[c]]

\* ---------------------------------------------------------------- actions
Init ==
    /\ field \in (SUBSET Cells) \ {{}}
    /\ elevation \in [field -> 0..MaxElev]
    /\ ascending \in BOOLEAN
    /\ pc = "route"
    /\ nodes = EmptyMap
    /\ parent_num = EmptyMap
    /\ drainage_area = EmptyMap
    /\ origins = {}
    /\ current = NoCell
    /\ visits = [c \in Cells |-> 0]
    /\ river_paths = EmptyMap
    /\ particle_map = EmptyMap
    /\ rw_pc = "off"
    /\ rw_map = EmptyMap
    /\ rw_file = EmptyMap
    /\ rw_loaded = NotLoaded
    /\ river_strength = 0
    /\ river_ignoreable_width_strength = 0
    /\ query = <<>>
    /\ collided = FALSE
    /\ fl_pc = "off"
    /\ fl_elevation = EmptyMap
    /\ fl_gradient = EmptyMap
    /\ sea_level = 0
    /\ minimum_neighbor_num = 0
    /\ fl_mapping = "none"
    /\ flatness_map = EmptyMap

\* map.rs 103-150
BuildNodes ==
    /\ pc = "route"
    /\ nodes' = [c \in field |-> InternalNode(c)]
    /\ pc' = "count"
    /\ UNCHANGED <<field, elevation, ascending, parent_num, drainage_area,
                   origins, current, visits, river_paths, particle_map>>
    /\ UNCHANGED <<rwvars, mvars, flvars>>

\* map.rs 152-160
CountParents ==
    /\ pc = "count"
    /\ parent_num' = ParentNum(nodes)
    /\ origins' = DOMAIN nodes
    /\ pc' = "seed"
    /\ UNCHANGED <<field, elevation, ascending, nodes, drainage_area,
                   current, visits, river_paths, particle_map>>
    /\ UNCHANGED <<rwvars, mvars, flvars>>

\* map.rs 164-168: the outer loop yields a cell that has a parent_num entry
SkipOrigin ==
    /\ pc = "seed"
    /\ \E o \in origins :
        /\ o \in DOMAIN parent_num
        /\ origins' = origins \ {o}
    /\ UNCHANGED <<field, elevation, ascending, pc, nodes, parent_num,
                   drainage_area, current, visits, river_paths, particle_map>>
    /\ UNCHANGED <<rwvars, mvars, flvars>>

\* map.rs 164-169: the outer loop yields a headwater cell; a walk starts
StartWalk ==
    /\ pc = "seed"
    /\ \E o \in origins :
        /\ o \notin DOMAIN parent_num
        /\ origins' = origins \ {o}
        /\ current' = o
    /\ pc' = "walk"
    /\ UNCHANGED <<field, elevation, ascending, nodes, parent_num,
                   drainage_area, visits, river_paths, particle_map>>
    /\ UNCHANGED <<rwvars, mvars, flvars>>

\* map.rs 169-199: one iteration of `loop { ... }`
\* (an unwrap of a missing entry panics: pc = "panic")
WalkStep ==
    /\ pc = "walk"
    /\ visits[current] < MaxVisits
    /\ IF current \notin DOMAIN nodes
       THEN /\ pc' = "panic"
            /\ UNCHANGED <<drainage_area, parent_num, current, visits>>
       ELSE
       LET current_area == nodes[current].area
           da1 == AddOrInsert(drainage_area, current, current_area)
           flow_to == nodes[current].flow_to
       IN /\ visits' = [visits EXCEPT ![current] = @ + 1]
          /\ IF flow_to = current
             THEN /\ drainage_area' = da1
                  /\ pc' = "seed"
                  /\ current' = NoCell
                  /\ UNCHANGED parent_num
             ELSE IF current \notin DOMAIN da1 \/ flow_to \notin DOMAIN parent_num
             THEN /\ pc' = "panic"
                  /\ drainage_area' = da1
                  /\ UNCHANGED <<parent_num, current>>
             ELSE /\ drainage_area' = AddOrInsert(da1, flow_to, da1[current])
                  /\ IF parent_num[flow_to] > 1
                     THEN /\ parent_num' = [parent_num EXCEPT ![flow_to] = @ - 1]
                          /\ pc' = "seed"
                          /\ current' = NoCell
                     ELSE /\ current' = flow_to
                          /\ UNCHANGED <<parent_num, pc>>
    /\ UNCHANGED <<rwvars, mvars, flvars>>
    /\ UNCHANGED <<field, elevation, ascending, nodes, origins, river_paths,
                   particle_map>>

\* map.rs 164/200: the outer loop is exhausted
EndWalks ==
    /\ pc = "seed"
    /\ origins = {}
    /\ pc' = "paths"
    /\ UNCHANGED <<field, elevation, ascending, nodes, parent_num,
                   drainage_area, origins, current, visits, river_paths,
                   particle_map>>
    /\ UNCHANGED <<rwvars, mvars, flvars>>

\* map.rs 202-212
BuildRiverPaths ==
    /\ pc = "paths"
    /\ IF \E c \in DOMAIN nodes : nodes[c].flow_to \notin DOMAIN nodes
       THEN /\ pc' = "panic"
            /\ UNCHANGED river_paths
       ELSE /\ river_paths' = RiverPaths(nodes)
            /\ pc' = "assemble"
    /\ UNCHANGED <<field, elevation, ascending, nodes, parent_num,
                   drainage_area, origins, current, visits, particle_map>>
    /\ UNCHANGED <<rwvars, mvars, flvars>>

\* map.rs 214-229
Assemble ==
    /\ pc = "assemble"
    /\ particle_map' = Assembled(nodes, drainage_area, river_paths)
    /\ pc' = "done"
    /\ UNCHANGED <<field, elevation, ascending, nodes, parent_num,
                   drainage_area, origins, current, visits, river_paths>>
    /\ UNCHANGED <<rwvars, mvars, flvars>>

Next ==
    \/ BuildNodes
    \/ CountParents
    \/ SkipOrigin
    \/ StartWalk
    \/ WalkStep
    \/ EndWalks
    \/ BuildRiverPaths
    \/ Assemble

Spec == Init /\ [][Next]_vars

\* ------------------------------------------------ save / load scenario
InitRW ==
    /\ field = {}
    /\ elevation = EmptyMap
    /\ ascending = TRUE
    /\ pc = "off"
    /\ nodes = EmptyMap
    /\ parent_num = EmptyMap
    /\ drainage_area = EmptyMap
    /\ origins = {}
    /\ current = NoCell
    /\ visits = [c \in Cells |-> 0]
    /\ river_paths = EmptyMap
    /\ particle_map = EmptyMap
    /\ rw_pc = "built"
    /\ \E keys \in (SUBSET RWParticles) \ {{}} :
       \E area \in RWValues, da \in RWValues, sl \in RWValues :
       \E flow_to \in [keys -> RWParticles], main_river \in [keys -> RWStreams] :
          rw_map = [p \in keys |->
                      [particle |-> p, area |-> area, drainage_area |-> da,
                       slope |-> sl, flow_to |-> flow_to[p],
                       main_river |-> main_river[p]]]
    /\ rw_file = EmptyMap
    /\ rw_loaded = NotLoaded
    /\ river_strength = 0
    /\ river_ignoreable_width_strength = 0
    /\ query = <<>>
    /\ collided = FALSE
    /\ fl_pc = "off"
    /\ fl_elevation = EmptyMap
    /\ fl_gradient = EmptyMap
    /\ sea_level = 0
    /\ minimum_neighbor_num = 0
    /\ fl_mapping = "none"
    /\ flatness_map = EmptyMap

\* map.rs 53-57
Save ==
    /\ rw_pc = "built"
    /\ rw_file' = SaveToFile(rw_map)
    /\ rw_pc' = "saved"
    /\ UNCHANGED <<rw_map, rw_loaded>>
    /\ UNCHANGED <<dvars, mvars, flvars>>

\* the file is edited between save and load: one token of one row changes
Tamper ==
    /\ rw_pc = "saved"
    /\ \E p \in DOMAIN rw_file : \E i \in 1..Len(rw_file[p]) : \E t \in TamperTokens :
          /\ t # rw_file[p][i]
          /\ rw_file' = [rw_file EXCEPT ![p][i] = t]
    /\ rw_pc' = "tampered"
    /\ UNCHANGED <<rw_map, rw_loaded>>
    /\ UNCHANGED <<dvars, mvars, flvars>>

\* map.rs 59-71
Load ==
    /\ rw_pc \in {"saved", "tampered"}
    /\ rw_loaded' = LoadFromFile(rw_file)
    /\ rw_pc' = IF rw_pc = "saved" THEN "reloaded" ELSE "loaded_tampered"
    /\ UNCHANGED <<rw_map, rw_file>>
    /\ UNCHANGED <<dvars, mvars, flvars>>

NextRW ==
    \/ Save
    \/ Tamper
    \/ Load

SpecRW == InitRW /\ [][NextRW]_vars

\* ------------------------------------------- build with any flow targets
\* The accumulator started on an arbitrary assignment of one flow target per
\* cell, cycles included.
InitAcc ==
    /\ field \in (SUBSET Cells) \ {{}}
    /\ elevation = [c \in field |-> 0]
    /\ ascending = TRUE
    /\ pc = "count"
    /\ \E target \in [field -> field] :
          nodes = [c \in field |->
                     [area |-> Area(c), flow_to |-> target[c], slope |-> ZeroSlope]]
    /\ parent_num = EmptyMap
    /\ drainage_area = EmptyMap
    /\ origins = {}
    /\ current = NoCell
    /\ visits = [c \in Cells |-> 0]
    /\ river_paths = EmptyMap
    /\ particle_map = EmptyMap
    /\ rw_pc = "off"
    /\ rw_map = EmptyMap
    /\ rw_file = EmptyMap
    /\ rw_loaded = NotLoaded
    /\ river_strength = 0
    /\ river_ignoreable_width_strength = 0
    /\ query = <<>>
    /\ collided = FALSE
    /\ fl_pc = "off"
    /\ fl_elevation = EmptyMap
    /\ fl_gradient = EmptyMap
    /\ sea_level = 0
    /\ minimum_neighbor_num = 0
    /\ fl_mapping = "none"
    /\ flatness_map = EmptyMap

NextAcc ==
    \/ CountParents
    \/ SkipOrigin
    \/ StartWalk
    \/ WalkStep
    \/ EndWalks
    \/ BuildRiverPaths
    \/ Assemble

SpecAcc == InitAcc /\ [][NextAcc]_vars

\* build_drainage_basin is sequential code: a step that can be taken is taken
FairSpecAcc == SpecAcc /\ WF_vars(NextAcc)

\* --------------------------------------------------- DrainageMap queries
\* map.rs 15-39: DrainageMap::new keeps the built map and the two strengths
NewDrainageMap ==
    /\ pc = "done"
    /\ river_strength' \in Strengths
    /\ river_ignoreable_width_strength' \in Strengths
    /\ pc' = "map"
    /\ UNCHANGED <<field, elevation, ascending, nodes, parent_num,
                   drainage_area, origins, current, visits, river_paths,
                   particle_map>>
    /\ UNCHANGED <<query, collided>>
    /\ UNCHANGED <<rwvars, flvars>>

\* map.rs 73-90: a query at the half-way point of a record's stream
CollidesWithRiverCall ==
    /\ pc = "map"
    /\ \E c \in DOMAIN particle_map :
          /\ query' = <<c, HalfWay>>
          /\ collided' = CollidesWithRiver(particle_map, river_strength,
                             river_ignoreable_width_strength,
                             Evaluate(particle_map[c].main_river, HalfWay))
    /\ pc' = "queried"
    /\ UNCHANGED <<field, elevation, ascending, nodes, parent_num,
                   drainage_area, origins, current, visits, river_paths,
                   particle_map>>
    /\ UNCHANGED <<river_strength, river_ignoreable_width_strength>>
    /\ UNCHANGED <<rwvars, flvars>>

NextMap ==
    \/ Next
    \/ NewDrainageMap
    \/ CollidesWithRiverCall

SpecMap == Init /\ [][NextMap]_vars

\* ------------------------------------------------------ build_flatness_map
InitFlat ==
    /\ field = {}
    /\ elevation = EmptyMap
    /\ ascending = TRUE
    /\ pc = "off"
    /\ nodes = EmptyMap
    /\ parent_num = EmptyMap
    /\ drainage_area = EmptyMap
    /\ origins = {}
    /\ current = NoCell
    /\ visits = [c \in Cells |-> 0]
    /\ river_paths = EmptyMap
    /\ particle_map = EmptyMap
    /\ rw_pc = "off"
    /\ rw_map = EmptyMap
    /\ rw_file = EmptyMap
    /\ rw_loaded = NotLoaded
    /\ river_strength = 0
    /\ river_ignoreable_width_strength = 0
    /\ query = <<>>
    /\ collided = FALSE
    /\ fl_pc = "start"
    /\ \E input \in [Cells -> FlatInputs] :
          /\ fl_elevation = [c \in Cells |-> input[c].e]
          /\ fl_gradient = [c \in Cells |-> input[c].g]
    /\ sea_level \in SeaLevels
    /\ minimum_neighbor_num \in 0..MaxNeighborNum
    /\ fl_mapping \in Mappings
    /\ flatness_map = EmptyMap

\* flatness.rs 57-77
FlatFirstPass ==
    /\ fl_pc = "start"
    /\ flatness_map' = FirstPass(fl_elevation, fl_gradient, sea_level, fl_mapping)
    /\ fl_pc' = "first"
    /\ UNCHANGED <<fl_elevation, fl_gradient, sea_level, minimum_neighbor_num,
                   fl_mapping>>
    /\ UNCHANGED <<dvars, rwvars, mvars>>

\* flatness.rs 79-93
FlatNeighborFilter ==
    /\ fl_pc = "first"
    /\ minimum_neighbor_num > 0
    /\ flatness_map' = NeighborFilter(flatness_map, minimum_neighbor_num)
    /\ fl_pc' = "returned"
    /\ UNCHANGED <<fl_elevation, fl_gradient, sea_level, minimum_neighbor_num,
                   fl_mapping>>
    /\ UNCHANGED <<dvars, rwvars, mvars>>

\* flatness.rs 79, 95: without a minimum the first pass is returned
FlatReturn ==
    /\ fl_pc = "first"
    /\ ~(minimum_neighbor_num > 0)
    /\ fl_pc' = "returned"
    /\ UNCHANGED <<fl_elevation, fl_gradient, sea_level, minimum_neighbor_num,
                   fl_mapping, flatness_map>>
    /\ UNCHANGED <<dvars, rwvars, mvars>>

NextFlat ==
    \/ FlatFirstPass
    \/ FlatNeighborFilter
    \/ FlatReturn

SpecFlat == InitFlat /\ [][NextFlat]_vars

\* ------------------------------------------------- derived notions (claims)
Built == pc \notin {"route"}
Accumulated == pc \in {"paths", "assemble", "done"}
Done == pc = "done"

RECURSIVE SumOf(_, _)
\* the sum of f[x] over x in S
SumOf(S, f) ==
    IF S = {} THEN 0
    ELSE LET x == CHOOSE y \in S : TRUE IN f[x] + SumOf(S \ {x}, f)

flow(c) == nodes[c].flow_to
Sinks == {c \in DOMAIN nodes : flow(c) = c}
Upstream(c) == {u \in DOMAIN nodes : u # c /\ flow(u) = c}

RECURSIVE Follow(_, _)
\* the cell reached from c after k applications of flow_to
Follow(c, k) == IF k = 0 THEN c ELSE Follow(flow(c), k - 1)

ReachesSink(c) == \E k \in 0..Cardinality(DOMAIN nodes) : Follow(c, k) \in Sinks
Acyclic == \A c \in DOMAIN nodes : ReachesSink(c)

\* the accumulated area of c, 0 when the map has no entry for c
AccArea(c) == IF c \in DOMAIN drainage_area THEN drainage_area[c] ELSE 0
AreaFn == [c \in Cells |-> Area(c)]
AccFn == [c \in Cells |-> AccArea(c)]

\* no two neighbouring cells of the field have the same elevation
NoTies == \A c \in field : \A n \in Neighbors(c) \cap field : elevation[n] # elevation[c]

\* --- supporting lemmas: what the accumulator does establish
\* Lemma: without two neighbouring cells of equal elevation the flow graph
\* is acyclic.
Lemma_AcyclicWithoutTies == (Built /\ NoTies) => Acyclic

\* Lemma: on an acyclic flow graph every non-sink cell is walked exactly once
\* and ends with its own area plus its contributors' accumulated areas, while
\* a sink is never walked and ends with its contributors' areas only (no
\* entry at all without contributors).
Lemma_AcyclicAccumulation ==
    (Accumulated /\ Acyclic) =>
        /\ \A c \in field \ Sinks :
              /\ visits[c] = 1
              /\ c \in DOMAIN drainage_area
              /\ drainage_area[c] = nodes[c].area + SumOf(Upstream(c), AccFn)
        /\ \A s \in Sinks :
              /\ visits[s] = 0
              /\ s \in DOMAIN drainage_area <=> Upstream(s) # {}
              /\ AccArea(s) = SumOf(Upstream(s), AccFn)

\* C1: after build_drainage_basin every cell with a drainage record has
\* drainage_area = its own area + the drainage_area of every other cell that
\* flows into it.
C1_RecordAreaIsOwnPlusUpstream ==
    Done => \A c \in DOMAIN particle_map :
                particle_map[c].drainage_area
                    = particle_map[c].area + SumOf(Upstream(c), AccFn)

\* C2: the areas of all cells sum to the accumulated drainage_area of the
\* sinks, every sink having an accumulated value; with a single sink that
\* value is the sum of all areas.
C2_AreaConserved ==
    Done => /\ Sinks \subseteq DOMAIN drainage_area
            /\ SumOf(field, AreaFn) = SumOf(Sinks, AccFn)

\* C3: every cell with an accumulated drainage_area has drainage_area >= area.
C3_AccumulatedAtLeastOwnArea ==
    Done => \A c \in DOMAIN drainage_area : drainage_area[c] >= nodes[c].area

\* C4: from every cell, following flow_to reaches a sink within N steps, so
\* the flow graph has no cycle of length greater than 1.
C4_FlowGraphAcyclic ==
    Built => \A c \in DOMAIN nodes : ReachesSink(c)

FlatPlateau ==
    /\ \A c, d \in field : elevation[c] = elevation[d]
    /\ \A c \in field : Neighbors(c) \cap field # {}

\* C5: on a flat plateau every cell is its own sink and its drainage_area is
\* its own area.
C5_FlatPlateauAllSinks ==
    (Done /\ FlatPlateau) =>
        \A c \in field : /\ flow(c) = c
                         /\ c \in DOMAIN drainage_area
                         /\ drainage_area[c] = nodes[c].area

\* --- reference for the flow router, stated without the scan
\* the neighbours of c the router may flow to
RefCandidates(c) ==
    {n \in Neighbors(c) : n \in field /\ elevation[n] <= elevation[c]}

\* (e(n) - e(c)) / distance(c, n) as a pair, candidates have de <= 0
RefSlope(c, n) == [de |-> elevation[n] - elevation[c], d2 |-> DistSq(c, n)]

\* a < b for slopes that are both <= 0
RefLess(a, b) == a.de * a.de * b.d2 > b.de * b.de * a.d2

RefPos(c, n) == CHOOSE i \in 1..Len(NeighborSeq(c)) : NeighborSeq(c)[i] = n

\* C6: flow_to(c) is the candidate neighbour (in the field, not higher) of
\* algebraically largest slope, the first in iteration order among equals,
\* and slope(c) is its slope; without a candidate c is a sink with slope 0.
\* The target is never higher than c and never outside the field.
C6_RouterMatchesReference ==
    Built => \A c \in field :
        LET t == nodes[c].flow_to
            s == nodes[c].slope
        IN /\ t \in field
           /\ elevation[t] <= elevation[c]
           /\ nodes[c].area = Area(c)
           /\ IF RefCandidates(c) = {}
              THEN t = c /\ s.de = 0
              ELSE /\ t \in RefCandidates(c)
                   /\ \A m \in RefCandidates(c) :
                        /\ ~RefLess(RefSlope(c, t), RefSlope(c, m))
                        /\ RefPos(c, m) < RefPos(c, t)
                              => RefLess(RefSlope(c, m), RefSlope(c, t))
                   /\ ~RefLess(s, RefSlope(c, t))
                   /\ ~RefLess(RefSlope(c, t), s)

\* a cell with two candidates of equal slope took the first and skipped a
\* higher neighbour, and another cell flows downhill with a negative slope
C6_Witness ==
    /\ Built
    /\ \E c \in field : \E m, n \in RefCandidates(c) :
          /\ m # n
          /\ ~RefLess(RefSlope(c, m), RefSlope(c, n))
          /\ ~RefLess(RefSlope(c, n), RefSlope(c, m))
          /\ nodes[c].flow_to = m
          /\ RefPos(c, m) < RefPos(c, n)
          /\ \E h \in Neighbors(c) \cap field : elevation[h] > elevation[c]
    /\ \E c \in field :
          /\ nodes[c].flow_to # c
          /\ nodes[c].slope.de < 0

\* C7: on an acyclic flow graph every cell is the current cell of a walk
\* exactly once over all walks.
C7_EveryCellWalkedOnce ==
    (Done /\ Acyclic) => \A c \in field : visits[c] = 1

\* C8: on an acyclic flow graph every cell of the flow graph has an entry in
\* the accumulated-area map when the accumulator has finished.
C8_EveryCellHasAccumulatedArea ==
    (Accumulated /\ Acyclic) => DOMAIN drainage_area = DOMAIN nodes

\* --- persisted record layout, stated on the tokens
StreamAt == 2 * ParticleLenStrs
OthersAt == 2 * ParticleLenStrs + StreamLenStrs

Parses(tok) == ParseF64(tok).ok
ValueOf(tok) == ParseF64(tok).val

\* C9: loading a saved map gives the same cells with the same field values;
\* every row has len_strs() tokens in the order particle, flow_to, stream
\* (7 tokens, a Point blank-padded), area, drainage_area, slope.
C9_SaveLoadRoundTrip ==
    rw_pc = "reloaded" =>
        /\ rw_loaded.some
        /\ DOMAIN rw_loaded.map = DOMAIN rw_map
        /\ \A p \in DOMAIN rw_map :
            LET n == rw_map[p]
                row == rw_file[p]
            IN /\ rw_loaded.map[p] = n
               /\ Len(row) = NodeLenStrs
               /\ ValueOf(row[1]).m = n.particle[1]
               /\ ValueOf(row[ParticleLenStrs]).m = n.particle[2]
               /\ ValueOf(row[ParticleLenStrs + 1]).m = n.flow_to[1]
               /\ ValueOf(row[StreamAt]).m = n.flow_to[2]
               /\ n.main_river.tag = "Path" =>
                    /\ row[StreamAt + 1] = TagPath
                    /\ \A i \in 2..StreamLenStrs : Parses(row[StreamAt + i])
                    /\ ValueOf(row[StreamAt + 4]) = n.main_river.handle[1]
                    /\ ValueOf(row[StreamAt + 7]) = n.main_river.end[2]
               /\ n.main_river.tag = "Point" =>
                    /\ row[StreamAt + 1] = TagPoint
                    /\ ValueOf(row[StreamAt + 2]) = n.main_river.at[1]
                    /\ ValueOf(row[StreamAt + 3]) = n.main_river.at[2]
                    /\ \A i \in 4..StreamLenStrs : row[StreamAt + i] = Blank
               /\ ValueOf(row[OthersAt + 1]) = n.area
               /\ ValueOf(row[OthersAt + 2]) = n.drainage_area
               /\ ValueOf(row[OthersAt + 3]) = n.slope

\* a map of two records, one with a Path and one with a Point stream, with
\* distinct area and drainage_area and a negative fractional slope, was
\* saved and loaded again
C9_Witness ==
    /\ rw_pc = "reloaded"
    /\ rw_loaded.some
    /\ Cardinality(DOMAIN rw_map) = 2
    /\ \E p, q \in DOMAIN rw_map :
          /\ rw_map[p].main_river.tag = "Path"
          /\ rw_map[q].main_river.tag = "Point"
          /\ rw_map[p].area # rw_map[p].drainage_area
          /\ rw_map[p].slope.m < 0 /\ rw_map[p].slope.k > 0
          /\ rw_map[p].area.k = 2

\* a row that does not follow the persisted layout: unknown stream tag,
\* a numeric field that does not parse, or a Point row with non-blank padding
Malformed(row) ==
    \/ row[StreamAt + 1] \notin {TagPath, TagPoint}
    \/ \E i \in (1..StreamAt) \cup ((OthersAt + 1)..(OthersAt + 3)) : ~Parses(row[i])
    \/ /\ row[StreamAt + 1] = TagPath
       /\ \E i \in 2..StreamLenStrs : ~Parses(row[StreamAt + i])
    \/ /\ row[StreamAt + 1] = TagPoint
       /\ \/ \E i \in 2..3 : ~Parses(row[StreamAt + i])
          \/ \E i \in 4..StreamLenStrs : row[StreamAt + i] # Blank

\* C10: a file holding a malformed row is never loaded: load_from_file
\* reports failure instead of producing records.
C10_MalformedRowRejected ==
    (rw_pc = "loaded_tampered" /\ \E p \in DOMAIN rw_file : Malformed(rw_file[p]))
        => ~rw_loaded.some

\* ------------------------------------------------ streams and the walk
\* twice a midpoint, free of the division
Twice(p) == <<2 * p[1], 2 * p[2]>>
PointSum(p, q) == <<p[1] + q[1], p[2] + q[2]>>

\* C16: the stream of a non-sink cell c with d = flow_to(c), d2 = flow_to(d)
\* is the quadratic curve from the midpoint of site(c), site(d) to the
\* midpoint of site(d), site(d2) with control point site(d), a Point at
\* site(c) exactly when site(c) = site(d); a sink has no stream; when d is
\* not a sink, c's curve ends where d's curve starts.
C16_StreamGeometry ==
    /\ \A a, b \in Cells : StreamNew(Site(a), Site(a), Site(b)) = PointOf(Site(a))
    /\ pc \in {"assemble", "done"} =>
        /\ DOMAIN river_paths = DOMAIN nodes \ Sinks
        /\ \A c \in DOMAIN river_paths :
              LET d == flow(c)
                  d2 == flow(d)
                  st == river_paths[c]
              IN /\ st.tag = "Point" <=> Site(c) = Site(d)
                 /\ st.tag = "Point" => st.at = Site(c)
                 /\ st.tag = "Path" =>
                      /\ Twice(st.start) = PointSum(Site(c), Site(d))
                      /\ st.handle = Site(d)
                      /\ Twice(st.end) = PointSum(Site(d), Site(d2))
                      /\ d \notin Sinks => st.end = river_paths[d].start

\* streams were built for a cell whose target is not a sink and for a cell
\* whose target is a sink, and a sink was left without one
C16_Witness ==
    /\ pc = "done"
    /\ \E c \in DOMAIN river_paths : flow(c) \notin Sinks
    /\ \E c \in DOMAIN river_paths : flow(c) \in Sinks
    /\ \E s \in Sinks : s \notin DOMAIN river_paths

\* u has been the current cell of a walk and has passed its value downstream
Deposited(u) == visits[u] >= 1 /\ flow(u) # u

\* C17: a walk continues into a target t only after every other cell that
\* flows to t has deposited its accumulated area into t; an arrival that is
\* not the last contributor decrements t's remaining in-degree and stops;
\* the value a cell has passed downstream never changes afterwards.
C17_DepositsBeforeContinuing ==
    [][ /\ (pc = "walk" /\ current \in DOMAIN nodes /\ flow(current) # current) =>
            LET t == flow(current)
            IN /\ current' = t =>
                    \A u \in Upstream(t) : visits'[u] = 1
               /\ (\E u \in Upstream(t) \ {current} : visits[u] = 0) =>
                    /\ parent_num'[t] = parent_num[t] - 1
                    /\ current' = NoCell
                    /\ pc' = "seed"
        /\ \A u \in DOMAIN nodes :
              Deposited(u) => drainage_area'[u] = drainage_area[u]
      ]_vars

\* a cell with two contributors has been walked after both deposited, and
\* holds its own area plus both deposits
C17_Witness ==
    \E t \in DOMAIN nodes :
        /\ flow(t) # t
        /\ Cardinality(Upstream(t)) >= 2
        /\ visits[t] = 1
        /\ drainage_area[t] = nodes[t].area + SumOf(Upstream(t), AccFn)

\* c lies on a cycle of the flow graph of length greater than 1
OnCycle(c) ==
    /\ flow(c) # c
    /\ \E k \in 2..Cardinality(DOMAIN nodes) : Follow(c, k) = c

\* C18: for every assignment of one flow target per cell, cycles included,
\* the accumulator terminates: the build reaches its end, the number of walk
\* steps is at most the number of cells, and a cell on a cycle is never
\* walked.
C18_AccumulatorTerminates ==
    /\ <>(pc = "done")
    /\ [](/\ pc # "panic"
          /\ SumOf(Cells, visits) <= Cardinality(field)
          /\ \A c \in DOMAIN nodes : OnCycle(c) => visits[c] = 0)

\* the build ended on a flow graph with a cycle into which a walked cell
\* deposited
C18_Witness ==
    /\ pc = "done"
    /\ \E c \in DOMAIN nodes :
          /\ OnCycle(c)
          /\ \E u \in Upstream(c) : ~OnCycle(u) /\ visits[u] = 1

\* C19: the built map has a record for c exactly when c is not a sink and
\* has an accumulated area; no sink has a record; area, flow_to and slope of
\* a record are the router's values.
C19_RecordIffStreamAndArea ==
    pc = "done" =>
        /\ DOMAIN particle_map
              = {c \in field : flow(c) # c /\ c \in DOMAIN drainage_area}
        /\ \A c \in DOMAIN particle_map :
              /\ flow(c) # c
              /\ particle_map[c].area = nodes[c].area
              /\ particle_map[c].flow_to = nodes[c].flow_to
              /\ particle_map[c].slope = nodes[c].slope
              /\ particle_map[c].drainage_area = drainage_area[c]
              /\ particle_map[c].main_river = river_paths[c]

\* a map was built that has a record, on a field with a sink that holds
\* accumulated area and a non-sink cell that holds none
C19_Witness ==
    /\ pc = "done"
    /\ particle_map # EmptyMap
    /\ \E s \in Sinks : s \in DOMAIN drainage_area /\ s \notin DOMAIN particle_map
    /\ \E c \in field \ Sinks : c \notin DOMAIN drainage_area /\ c \notin DOMAIN particle_map

\* C20: build_drainage_basin never panics: the current cell of a walk is in
\* the node map and has an accumulated area when it is read, every flow
\* target has an in-degree entry and a node, and a cell without accumulated
\* area or without a stream is left out of the result.
C20_NoPanic ==
    /\ pc # "panic"
    /\ pc = "walk" => current \in DOMAIN nodes
    /\ (pc = "walk" /\ visits[current] >= 1) => current \in DOMAIN drainage_area
    /\ pc \in {"seed", "walk", "paths"} =>
          \A c \in DOMAIN nodes : /\ flow(c) \in DOMAIN parent_num
                                  /\ flow(c) \in DOMAIN nodes
    /\ pc = "done" =>
          \A c \in DOMAIN nodes \ DOMAIN particle_map :
              c \notin DOMAIN drainage_area \/ c \notin DOMAIN river_paths

\* the build ended after a walk of at least two steps, leaving out a cell
\* without accumulated area
C20_Witness ==
    /\ pc = "done"
    /\ \E c \in field : visits[c] = 1 /\ flow(c) # c /\ visits[flow(c)] = 1
    /\ \E c \in field : c \notin DOMAIN drainage_area

\* ------------------------------------------------------ collision queries
\* the record whose curve point was queried
QueriedNode == particle_map[query[1]]
QueryPoint == Evaluate(QueriedNode.main_river, query[2])
OwnWidth == RiverWidth(QueriedNode, river_strength)
IgnoreableWidth == RiverIgnoreableWidth(river_ignoreable_width_strength)

\* C11: for a record whose river_width is above the ignoreable width,
\* collides_with_river returns true at the t = 0.5 point of the record's
\* stream.
C11_CurvePointCollides ==
    (pc = "queried" /\ query[2] = HalfWay /\ WidthLT(IgnoreableWidth, OwnWidth))
        => collided

\* the half-way point of a record wider than a positive ignoreable width
\* was queried, on a map with a record narrower than that width
C11_Witness ==
    /\ pc = "queried"
    /\ query[2] = HalfWay
    /\ river_ignoreable_width_strength > 0
    /\ WidthLT(IgnoreableWidth, OwnWidth)
    /\ \E d \in DOMAIN particle_map :
          WidthLT(RiverWidth(particle_map[d], river_strength), IgnoreableWidth)
    /\ collided

\* the river of record d covers the query point: a point of d's curve lies
\* within d's river_width of it
Covers(d) ==
    \E j \in 0..TSteps :
        CloserThan(PointDistSq(Evaluate(particle_map[d].main_river, j), QueryPoint),
                   RiverWidth(particle_map[d], river_strength))

\* d's river is narrower than the ignoreable width
Narrow(d) == WidthLT(RiverWidth(particle_map[d], river_strength), IgnoreableWidth)

\* C12 (first sentence): at the t = 0.5 point of c's stream
\* collides_with_river returns false once the ignoreable width is above
\* river_width(c).
C12_FalseAboveOwnWidth ==
    (pc = "queried" /\ query[2] = HalfWay /\ WidthLT(OwnWidth, IgnoreableWidth))
        => ~collided

\* C12 (amended): collides_with_river returns false at the t = 0.5 point of
\* c's stream once the ignoreable width is above the river_width of every
\* record the query examines; a true result is always caused by a record at
\* least as wide as the ignoreable width whose river covers the point, never
\* by a narrower one.
C12_NarrowRiversIgnored ==
    pc = "queried" =>
        /\ (\A d \in Queried(particle_map, QueryPoint) : Narrow(d)) => ~collided
        /\ collided => \E d \in DOMAIN particle_map : ~Narrow(d) /\ Covers(d)

\* the queried record is narrower than the ignoreable width and its river
\* covers the point, and the query returned false
C12_Witness ==
    /\ pc = "queried"
    /\ query[2] = HalfWay
    /\ Narrow(query[1])
    /\ Covers(query[1])
    /\ Cardinality(Queried(particle_map, QueryPoint)) >= 2
    /\ ~collided

\* --------------------------------------------------------------- flatness
FlatBuilt == fl_pc \in {"first", "returned"}

\* what the caller's mapping returns for the gradient at c
Mapped(c) == GradientToFlatness(fl_mapping, fl_gradient[c].val)

\* c is at or above sea level, has a gradient and the mapping accepts it
HasValue(c) ==
    /\ fl_elevation[c] >= sea_level
    /\ fl_gradient[c].some
    /\ Mapped(c).some

\* the neighbours of c with a value before the filter, and in the map
ValuedNeighbors(c) == {n \in Neighbors(c) : HasValue(n)}
RetainedNeighbors(c) == {n \in Neighbors(c) : n \in DOMAIN flatness_map}

\* C13: a cell has a flatness value only if its elevation is at or above
\* sea_level, its gradient is defined and the mapping returns a value; any
\* other cell is absent, never stored with a default; with
\* minimum_neighbor_num = 0 the result is exactly those cells with exactly
\* the mapping's values.
C13_FlatnessOnlyWhereDefined ==
    FlatBuilt =>
        /\ \A c \in DOMAIN flatness_map :
              /\ HasValue(c)
              /\ flatness_map[c] = Mapped(c).val
        /\ (fl_pc = "returned" /\ minimum_neighbor_num = 0) =>
              DOMAIN flatness_map = {c \in Cells : HasValue(c)}

\* a map was returned with minimum_neighbor_num = 0 that holds a cell and
\* leaves out a cell below sea level, a cell without gradient and a cell the
\* mapping rejects
C13_Witness ==
    /\ fl_pc = "returned"
    /\ minimum_neighbor_num = 0
    /\ flatness_map # EmptyMap
    /\ \E c \in Cells \ DOMAIN flatness_map :
          fl_elevation[c] < sea_level /\ fl_gradient[c].some
    /\ \E c \in Cells \ DOMAIN flatness_map :
          fl_elevation[c] >= sea_level /\ ~fl_gradient[c].some
    /\ \E c \in Cells \ DOMAIN flatness_map :
          fl_elevation[c] >= sea_level /\ fl_gradient[c].some /\ ~Mapped(c).some

\* Lemma: the neighbour filter counts the neighbours that had a value
\* before the filter ran.
Lemma_FilterCountsFirstPass ==
    (fl_pc = "returned" /\ minimum_neighbor_num > 0) =>
        DOMAIN flatness_map
            = {c \in Cells : /\ HasValue(c)
                             /\ Cardinality(ValuedNeighbors(c)) >= minimum_neighbor_num}

\* C14: with minimum_neighbor_num > 0 every cell of the returned map has at
\* least minimum_neighbor_num neighbours that are in the returned map too,
\* and every cell that had a value and that many valued neighbours is
\* retained.
C14_RetainedHaveRetainedNeighbors ==
    (fl_pc = "returned" /\ minimum_neighbor_num > 0) =>
        /\ \A c \in DOMAIN flatness_map :
              Cardinality(RetainedNeighbors(c)) >= minimum_neighbor_num
        /\ \A c \in Cells :
              (HasValue(c) /\ Cardinality(ValuedNeighbors(c)) >= minimum_neighbor_num)
                  => c \in DOMAIN flatness_map

\* 0 < v <= 1 for a flatness value
InUnitInterval(v) == 0 < v.n /\ v.n <= v.d

\* C15: every value stored in a built flatness map lies in (0, 1], whatever
\* the elevations and the caller's mapping, the example mapping included.
C15_ValuesInUnitInterval ==
    FlatBuilt => \A c \in DOMAIN flatness_map : InUnitInterval(flatness_map[c])

\* C15 for the example mapping alone
C15_ExampleValuesInUnitInterval ==
    (FlatBuilt /\ fl_mapping = "example") =>
        \A c \in DOMAIN flatness_map : InUnitInterval(flatness_map[c])

====
